---- MODULE Spec2Model ----
(***************************************************************************)
(* A model of download_tickets.py: TicketCSVDownloader.                    *)
(*                                                                         *)
(*   run()                 Extract, then per link BeginDownload and its    *)
(*                         Attempts, FinishDownloading, the aggregation    *)
(*   download_file(url)    BeginDownload (file name), Attempt (one pass of  *)
(*                         the retry loop)                                  *)
(*   aggregate_csv_files() AggStart (listing, open), AggFile (one pass of   *)
(*                         the file loop), AggFinish (FINAL line)           *)
(*                                                                         *)
(* Spec is one run of the pipeline on a message drawn from Messages.        *)
(* AggSpec is aggregate_csv_files applied to a raw directory of up to       *)
(* MaxFiles files drawn from FileKinds.                                     *)
(*                                                                         *)
(* The collaborators the program consumes as libraries are modelled by      *)
(* what they hand back: the HTTP transport by the outcome of a request,     *)
(* csv.Sniffer().has_header by a flag of the file, csv.reader by the rows   *)
(* of the file, the e-mail parser and the href regular expression by the    *)
(* list of href values found in the body.                                   *)
(***************************************************************************)
EXTENDS Integers, Sequences, FiniteSets, TLC

VARIABLES
    eml,               \* the message file at self.eml_path
    pc,                \* position of run() / aggregate_csv_files()
    urls,              \* run(): urls
    idx,               \* run(): index in urls of the link of the for loop
    filename,          \* download_file: filename (NoName outside a call)
    attempt,           \* download_file: attempt
    now,               \* int(time.time()), seconds since construction
    downloaded_files,  \* run(): downloaded_files
    downloadLog,       \* logs/downloads.log, one record per line
    aggLog,            \* logs/aggregation.log, one record per line
    rawDir,            \* raw_downloads/, in os.listdir order
    combinedExists,    \* combined_<name>.csv exists
    combined,          \* rows of combined_<name>.csv
    csv_files,         \* aggregate_csv_files: csv_files
    fi,                \* aggregate_csv_files: index in csv_files of `file`
    header_written,    \* aggregate_csv_files: header_written
    total_data_rows,   \* aggregate_csv_files: total_data_rows
    hist,              \* history: the attempts of the current/last call
    returned,          \* history: return value of each completed call
    fetched,           \* history: the url of each download_file call
    aggCalls           \* history: number of aggregate_csv_files calls

vars == <<eml, pc, urls, idx, filename, attempt, now, downloaded_files,
          downloadLog, aggLog, rawDir, combinedExists, combined, csv_files,
          fi, header_written, total_data_rows, hist, returned, fetched,
          aggCalls>>

----------------------------------------------------------------------------
(* Bounds *)

MaxLinks == 2

MaxFiles == 3

MaxRows == 2

MaxTick == 1

(* Program constants *)

retry_attempts == 3

retry_delay == 2

----------------------------------------------------------------------------
(* Values *)

NoTime == 0 - 1

\* An href value: scheme://netloc/stem[.ext][tail]; tail is what follows the
\* path (a query string), "" when there is none.
Href(netloc, stem, ext, tail) ==
    [netloc |-> netloc, stem |-> stem, ext |-> ext, tail |-> tail]

Hrefs ==
    { Href("x", "a", "csv", ""),            \* http://x/a.csv
      Href("y", "a", "csv", ""),            \* http://y/a.csv
      Href("x", "c", "txt", ""),            \* http://x/c.txt
      Href("[x", "d", "csv", ""),           \* http://[x/d.csv
      Href("x", "data", "", "?f=.csv") }    \* http://x/data?f=.csv

\* str.lower() on the extensions in use.
Lower(s) == IF s = "CSV" THEN "csv" ELSE s

\* url.lower().endswith(".csv") on the whole href string.
EndsWithCsv(h) ==
    IF h.tail = "" THEN Lower(h.ext) = "csv" ELSE h.tail = "?f=.csv"

\* urlparse(url) raises ValueError("Invalid IPv6 URL") on an unbalanced
\* bracket in the netloc.
UrlparseRaises(h) == h.netloc = "[x"

\* A file name: stem[t][.ext]; t is the number in download_<t>.csv.
Name(stem, t, ext) == [stem |-> stem, t |-> t, ext |-> ext]

\* os.path.basename(urlparse(url).path)
Basename(h) == Name(h.stem, NoTime, h.ext)

\* not filename or "." not in filename
NeedsFallback(n) == (n.stem = "" /\ n.ext = "") \/ n.ext = ""

\* f"download_{int(time.time())}.csv"
FallbackName(t) == Name("download_", t, "csv")

\* f.lower().endswith(".csv") on a file name
IsCsvName(n) == Lower(n.ext) = "csv"

\* A row of a CSV file: row k of the file from source src; hdr marks a row
\* that names the columns.
Row(src, k, hdr) == [src |-> src, k |-> k, hdr |-> hdr]

\* The rows csv.reader yields for a file of n rows.
Rows(src, n, headered) == [k \in 1..n |-> Row(src, k, headered /\ k = 1)]

\* The bytes of a file: whether they decode as UTF-8, the rows they parse
\* to, and what csv.Sniffer().has_header answers on their first 1024
\* characters (csv.Error on an empty sample counts as no header).
Content(src, readable, n, headered, sniff) ==
    [readable |-> readable, rows |-> Rows(src, n, headered), sniff |-> sniff]

ContentKinds ==
    { [readable |-> FALSE, n |-> 1, headered |-> FALSE, sniff |-> FALSE],
      [readable |-> TRUE, n |-> 0, headered |-> FALSE, sniff |-> FALSE] }
    \cup { [readable |-> TRUE, n |-> n, headered |-> h, sniff |-> s] :
             n \in 1..MaxRows, h \in BOOLEAN, s \in BOOLEAN }

Contents(src) ==
    { Content(src, k.readable, k.n, k.headered, k.sniff) : k \in ContentKinds }

\* The files of a raw directory: under a .csv name any content, and one
\* file each under a .CSV and a .txt name.
FileKinds ==
    { [ext |-> "csv", kind |-> k] : k \in ContentKinds }
    \cup { [ext |-> e,
            kind |-> [readable |-> TRUE, n |-> 1, headered |-> TRUE,
                      sniff |-> TRUE]] : e \in {"CSV", "txt"} }

\* A raw directory in os.listdir order, from the kinds of its files: file
\* i is named f<i>.<ext>.
Directory(k) ==
    [i \in 1..Len(k) |->
       [name |-> Name("f", i, k[i].ext),
        data |-> Content(i, k[i].kind.readable, k[i].kind.n,
                         k[i].kind.headered, k[i].kind.sniff)]]

\* The response bodies of the pipeline runs: an empty body, and a file of
\* MaxRows rows with a header row that the sniffer finds.
Payloads(src) ==
    { c \in Contents(src) :
        /\ c.readable
        /\ Len(c.rows) \in {0, MaxRows}
        /\ c.sniff = (c.rows # <<>>)
        /\ c.rows # <<>> => c.rows[1].hdr }

\* What one request attempt comes to: urlopen hands back a response only for
\* a 2xx status and raises HTTPError for the others.
Outcome(kind, status) == [kind |-> kind, status |-> status]

Outcomes ==
    { Outcome("response", 200), Outcome("response", 204),
      Outcome("HTTPError", 404), Outcome("URLError", 0),
      Outcome("Exception", 0) }

Messages ==
    { [status |-> "missing", links |-> <<>>],
      [status |-> "unparseable", links |-> <<>>] }
    \cup { [status |-> "ok", links |-> l] :
             l \in UNION { [1..n -> Hrefs] : n \in 0..MaxLinks } }

RECURSIVE Filter(_, _)
Filter(s, i) ==
    IF i > Len(s) THEN <<>>
    ELSE IF EndsWithCsv(s[i]) THEN <<s[i]>> \o Filter(s, i + 1)
    ELSE Filter(s, i + 1)

\* extract_csv_urls: the list returned.
CsvUrls(m) == IF m.status = "ok" THEN Filter(m.links, 1) ELSE <<>>

\* A line of downloads.log: the call that wrote it (0: extract_csv_urls) and
\* its closing word; the reason in brackets is left out.
DownloadLine(call, level) == [call |-> call, level |-> level]

AggLine(level, file, n) == [level |-> level, file |-> file, n |-> n]

NoName == Name("", NoTime, "")

----------------------------------------------------------------------------
(* extract_csv_urls and the head of run() *)

\* Mutant of NoUrls: the early return of run() is never taken.
NoUrlsNever(u) == FALSE

\* if not urls: return
NoUrls(u) == u = <<>>

Extract ==
    /\ pc = "Extracting"
    /\ urls' = CsvUrls(eml)
    /\ downloadLog' =
         IF eml.status = "missing"
         THEN Append(downloadLog, DownloadLine(0, "EMAIL NOT FOUND"))
         ELSE IF eml.status = "unparseable"
         THEN Append(downloadLog, DownloadLine(0, "FAILED TO PARSE EMAIL"))
         ELSE downloadLog
    /\ aggLog' =
         IF eml.status = "ok"
         THEN Append(aggLog, AggLine("FOUND", NoName, Len(CsvUrls(eml))))
         ELSE aggLog
    /\ pc' = IF NoUrls(CsvUrls(eml)) THEN "Done" ELSE "Downloading"
    /\ idx' = 1
    /\ UNCHANGED <<eml, filename, attempt, now, downloaded_files, rawDir,
                   combinedExists, combined, csv_files, fi, header_written,
                   total_data_rows, hist, returned, fetched, aggCalls>>

Init ==
    /\ eml \in Messages
    /\ pc = "Extracting"
    /\ urls = <<>>
    /\ idx = 0
    /\ filename = NoName
    /\ attempt = 0
    /\ now = 0
    /\ downloaded_files = <<>>
    /\ downloadLog = <<>>
    /\ aggLog = <<>>
    /\ rawDir = <<>>
    /\ combinedExists = FALSE
    /\ combined = <<>>
    /\ csv_files = <<>>
    /\ fi = 0
    /\ header_written = FALSE
    /\ total_data_rows = 0
    /\ hist = <<>>
    /\ returned = <<>>
    /\ fetched = <<>>
    /\ aggCalls = 0

----------------------------------------------------------------------------
(* download_file and the for loop of run() *)

\* Mutant of IsSuccessStatus: every 2xx status is taken as success.
IsSuccessStatusAny2xx(status) == 200 <= status /\ status < 300

\* response.status == 200
IsSuccessStatus(status) == status = 200

\* Mutant of AttemptsRemain: off by one, a retry after the last attempt.
AttemptsRemainOffByOne(a) == a <= retry_attempts

\* if attempt < self.retry_attempts
AttemptsRemain(a) == a < retry_attempts

\* open(filepath, "wb").write(data): the directories that can result. A name
\* already there keeps its place in the listing and gets the new bytes; a
\* new name may come anywhere in os.listdir order.
InsertAt(s, p, e) == SubSeq(s, 1, p - 1) \o <<e>> \o SubSeq(s, p, Len(s))

WriteFile(dir, name, data) ==
    IF \E i \in 1..Len(dir) : dir[i].name = name
    THEN { [i \in 1..Len(dir) |->
              IF dir[i].name = name THEN [name |-> name, data |-> data]
              ELSE dir[i]] }
    ELSE { InsertAt(dir, p, [name |-> name, data |-> data]) :
             p \in 1..(Len(dir) + 1) }

\* History of one attempt: whether urlopen handed back a response and its
\* status (0 when it raised), whether the attempt ended in the SUCCESS
\* branch, and whether time.sleep was called after it.
Attempted(o, ok, slept) ==
    [response |-> o.kind = "response",
     status |-> IF o.kind = "response" THEN o.status ELSE 0,
     ok |-> ok, slept |-> slept]

\* Mutant of FailureLines: every failed attempt is logged.
FailureLinesEveryAttempt(call, a) == <<DownloadLine(call, "FAILED")>>

\* The lines one failed attempt adds to downloads.log.
FailureLines(call, a) ==
    IF AttemptsRemain(a) THEN <<>> ELSE <<DownloadLine(call, "FAILED")>>

\* The lines a successful attempt adds to downloads.log.
SuccessLines(call) == <<DownloadLine(call, "SUCCESS")>>

\* run(): filepath = self.download_file(url); if filepath: append.
\* A return value is <<>> for None and <<filename>> for a path.
Return(value) ==
    /\ returned' = Append(returned, value)
    /\ downloaded_files' = downloaded_files \o value
    /\ idx' = idx + 1
    /\ pc' = "Downloading"

\* download_file, up to the retry loop: the file name. A ValueError of
\* urlparse is raised outside the try blocks and leaves run().
BeginDownload ==
    /\ pc = "Downloading"
    /\ idx <= Len(urls)
    /\ fetched' = Append(fetched, urls[idx])
    /\ hist' = <<>>
    /\ IF UrlparseRaises(urls[idx])
       THEN /\ pc' = "Crashed"
            /\ UNCHANGED <<filename, attempt, now>>
       ELSE /\ pc' = "Fetching"
            /\ attempt' = 1
            /\ IF NeedsFallback(Basename(urls[idx]))
               THEN \E dt \in 0..MaxTick :
                      /\ now' = now + dt
                      /\ filename' = FallbackName(now')
               ELSE /\ filename' = Basename(urls[idx])
                    /\ now' = now
    /\ UNCHANGED <<eml, urls, idx, downloaded_files, downloadLog, aggLog,
                   rawDir, combinedExists, combined, csv_files, fi,
                   header_written, total_data_rows, returned, aggCalls>>

\* One pass of the retry loop.
Attempt ==
    /\ pc = "Fetching"
    /\ \E o \in Outcomes :
         IF o.kind = "response" /\ IsSuccessStatus(o.status)
         THEN \E data \in Payloads(idx) :
                \E dir \in WriteFile(rawDir, filename, data) :
                  /\ rawDir' = dir
                  /\ downloadLog' = downloadLog \o SuccessLines(idx)
                  /\ hist' = Append(hist, Attempted(o, TRUE, FALSE))
                  /\ Return(<<filename>>)
                  /\ UNCHANGED <<attempt, now>>
         ELSE /\ downloadLog' = downloadLog \o FailureLines(idx, attempt)
              /\ hist' = Append(hist, Attempted(o, FALSE,
                                                 AttemptsRemain(attempt)))
              /\ rawDir' = rawDir
              /\ IF AttemptsRemain(attempt)
                 THEN /\ now' = now + retry_delay
                      /\ attempt' = attempt + 1
                      /\ UNCHANGED <<returned, downloaded_files, idx, pc>>
                 ELSE /\ Return(<<>>)
                      /\ UNCHANGED <<attempt, now>>
    /\ UNCHANGED <<eml, urls, filename, aggLog, combinedExists, combined,
                   csv_files, fi, header_written, total_data_rows, fetched,
                   aggCalls>>

\* The for loop is exhausted: print the count, call aggregate_csv_files.
FinishDownloading ==
    /\ pc = "Downloading"
    /\ idx > Len(urls)
    /\ pc' = "Aggregating"
    /\ hist' = <<>>
    /\ UNCHANGED <<eml, urls, idx, filename, attempt, now, downloaded_files,
                   downloadLog, aggLog, rawDir, combinedExists, combined,
                   csv_files, fi, header_written, total_data_rows,
                   returned, fetched, aggCalls>>

----------------------------------------------------------------------------
(* aggregate_csv_files *)

RECURSIVE CsvNames(_, _)
\* [f for f in os.listdir(self.raw_dir) if f.lower().endswith(".csv")]
CsvNames(dir, i) ==
    IF i > Len(dir) THEN <<>>
    ELSE IF IsCsvName(dir[i].name) THEN <<dir[i].name>> \o CsvNames(dir, i + 1)
    ELSE CsvNames(dir, i + 1)

\* The bytes open(filepath) reads.
FileData(dir, name) ==
    dir[CHOOSE i \in 1..Len(dir) : dir[i].name = name].data

\* if not rows
IsEmptyFile(rows) == rows = <<>>

\* The row written as the header when this file is added.
HeaderRows(rows, hw) == IF ~hw THEN <<rows[1]>> ELSE <<>>

\* Mutant of DataRows: the first row of every file is dropped.
DataRowsAlwaysTail(rows, has_header, hw) == Tail(rows)

\* Mutant of DataRows: the classification of later files is ignored.
DataRowsKeepAll(rows, has_header, hw) == IF ~hw THEN Tail(rows) ELSE rows

\* data_rows
DataRows(rows, has_header, hw) ==
    IF ~hw THEN Tail(rows)
    ELSE IF has_header THEN Tail(rows) ELSE rows

\* Listing, the early return, and open(combined_path, "w").
AggStart ==
    /\ pc = "Aggregating"
    /\ aggCalls' = aggCalls + 1
    /\ IF CsvNames(rawDir, 1) = <<>>
       THEN /\ aggLog' = Append(aggLog, AggLine("NO CSV FILES", NoName, 0))
            /\ pc' = "Done"
            /\ UNCHANGED <<combinedExists, combined, csv_files, fi,
                           header_written, total_data_rows>>
       ELSE /\ csv_files' = CsvNames(rawDir, 1)
            /\ combinedExists' = TRUE
            /\ combined' = <<>>
            /\ header_written' = FALSE
            /\ total_data_rows' = 0
            /\ fi' = 1
            /\ pc' = "AggLoop"
            /\ aggLog' = aggLog
    /\ UNCHANGED <<eml, urls, idx, filename, attempt, now, downloaded_files,
                   downloadLog, rawDir, hist, returned, fetched>>

\* One pass of the loop over csv_files.
AggFile ==
    /\ pc = "AggLoop"
    /\ fi <= Len(csv_files)
    /\ LET file == csv_files[fi]
           f == FileData(rawDir, file)
       IN  IF ~f.readable
           THEN /\ aggLog' = Append(aggLog, AggLine("FAILED", file, 0))
                /\ UNCHANGED <<combined, header_written, total_data_rows>>
           ELSE IF IsEmptyFile(f.rows)
           THEN /\ aggLog' = Append(aggLog, AggLine("SKIPPED", file, 0))
                /\ UNCHANGED <<combined, header_written, total_data_rows>>
           ELSE LET data_rows == DataRows(f.rows, f.sniff, header_written)
                IN  /\ combined' = combined \o HeaderRows(f.rows, header_written)
                                            \o data_rows
                    /\ header_written' = TRUE
                    /\ total_data_rows' = total_data_rows + Len(data_rows)
                    /\ aggLog' = Append(aggLog,
                                        AggLine("ADDED", file, Len(data_rows)))
    /\ fi' = fi + 1
    /\ UNCHANGED <<eml, pc, urls, idx, filename, attempt, now,
                   downloaded_files, downloadLog, rawDir, combinedExists,
                   csv_files, hist, returned, fetched, aggCalls>>

\* final_row_count
FinalRowCount(total, hw) == total + (IF hw THEN 1 ELSE 0)

\* The loop is exhausted: the FINAL line.
AggFinish ==
    /\ pc = "AggLoop"
    /\ fi > Len(csv_files)
    /\ aggLog' = Append(aggLog,
                        AggLine("FINAL", NoName,
                                FinalRowCount(total_data_rows, header_written)))
    /\ pc' = "Done"
    /\ UNCHANGED <<eml, urls, idx, filename, attempt, now, downloaded_files,
                   downloadLog, rawDir, combinedExists, combined, csv_files,
                   fi, header_written, total_data_rows, hist, returned,
                   fetched, aggCalls>>

----------------------------------------------------------------------------
(* Specifications *)

Next ==
    \/ Extract
    \/ BeginDownload
    \/ Attempt
    \/ FinishDownloading
    \/ AggStart
    \/ AggFile
    \/ AggFinish

Spec == Init /\ [][Next]_vars

\* aggregate_csv_files on a drawn raw directory.
AggInit ==
    /\ eml = [status |-> "ok", links |-> <<>>]
    /\ pc = "Aggregating"
    /\ urls = <<>>
    /\ idx = 0
    /\ filename = NoName
    /\ attempt = 0
    /\ now = 0
    /\ downloaded_files = <<>>
    /\ downloadLog = <<>>
    /\ aggLog = <<>>
    /\ \E n \in 0..MaxFiles :
         \E k \in [1..n -> FileKinds] : rawDir = Directory(k)
    /\ combinedExists = FALSE
    /\ combined = <<>>
    /\ csv_files = <<>>
    /\ fi = 0
    /\ header_written = FALSE
    /\ total_data_rows = 0
    /\ hist = <<>>
    /\ returned = <<>>
    /\ fetched = <<>>
    /\ aggCalls = 0

AggNext == AggStart \/ AggFile \/ AggFinish

AggSpec == AggInit /\ [][AggNext]_vars

----------------------------------------------------------------------------
(* Properties of download_file, under Spec *)

\* The lines of downloads.log written by call c of download_file.
LinesOf(c) == { i \in 1..Len(downloadLog) : downloadLog[i].call = c }

LevelsOf(c) == { downloadLog[i].level : i \in LinesOf(c) }

\* The call of download_file that hist describes has returned.
CallReturned == pc = "Downloading" /\ hist # <<>>

\* C1: every call of download_file that has returned wrote exactly one line
\* to the download log, a SUCCESS line if and only if it returned a file
\* path and a FAILED line if and only if it returned None; a call still in
\* its retry loop has written no line, so retried attempts log nothing.
C1_OneLogLinePerCall ==
    /\ \A c \in 1..Len(returned) :
         /\ Cardinality(LinesOf(c)) = 1
         /\ ("SUCCESS" \in LevelsOf(c)) <=> (returned[c] # <<>>)
         /\ ("FAILED" \in LevelsOf(c)) <=> (returned[c] = <<>>)
    /\ pc = "Fetching" => LinesOf(idx) = {}

\* A call that failed twice and succeeded on the third attempt has returned.
C1_Witness ==
    /\ CallReturned
    /\ Len(hist) = 3
    /\ ~hist[1].ok /\ ~hist[2].ok /\ hist[3].ok
    /\ LevelsOf(Len(returned)) = {"SUCCESS"}

\* C2: download_file makes at most 3 attempts and never gets stuck in its
\* loop; a successful attempt is the last one of its call; the call returns
\* None exactly when 3 attempts were made and all failed; time.sleep follows
\* an attempt exactly when the attempt failed and was the first or second.
C2_BoundedRetry ==
    /\ Len(hist) <= 3
    /\ \A i \in 1..Len(hist) :
         /\ hist[i].ok => (i = Len(hist) /\ pc # "Fetching")
         /\ hist[i].slept <=> (~hist[i].ok /\ i < 3)
    /\ pc = "Fetching" => (attempt = Len(hist) + 1 /\ attempt <= 3
                           /\ ENABLED Attempt)
    /\ CallReturned =>
         ((returned[Len(returned)] = <<>>)
            <=> (Len(hist) = 3 /\ \A i \in 1..3 : ~hist[i].ok))

\* A call whose three attempts all failed has returned, after two waits.
C2_Witness ==
    /\ CallReturned
    /\ Len(hist) = 3
    /\ \A i \in 1..3 : ~hist[i].ok
    /\ hist[1].slept /\ hist[2].slept /\ ~hist[3].slept
    /\ returned[Len(returned)] = <<>>

Is2xx(status) == 200 <= status /\ status < 300

\* C3 as stated: an attempt whose response carries any 2xx status ends in
\* success (it is not counted as failed and not retried).
C3_Any2xxSucceeds ==
    \A i \in 1..Len(hist) :
      (hist[i].response /\ Is2xx(hist[i].status)) => hist[i].ok

\* C3 amended: an attempt succeeds exactly when its response carries status
\* 200; every other outcome, a 2xx status other than 200 included, is a
\* failed attempt. The successful attempt is the last of its call, the call
\* returns the path of a file then present in the raw directory, and its
\* log line is a SUCCESS line.
C3_Only200Succeeds ==
    /\ \A i \in 1..Len(hist) :
         /\ hist[i].ok <=> (hist[i].response /\ hist[i].status = 200)
         /\ hist[i].ok => i = Len(hist)
    /\ (CallReturned /\ hist[Len(hist)].ok) =>
         /\ returned[Len(returned)] # <<>>
         /\ \E j \in 1..Len(rawDir) :
              rawDir[j].name = returned[Len(returned)][1]
         /\ LevelsOf(Len(returned)) = {"SUCCESS"}

\* A call that met status 204 on its first attempt and 200 on its second
\* has returned.
C3_Witness ==
    /\ CallReturned
    /\ Len(hist) = 2
    /\ hist[1].response /\ hist[1].status = 204 /\ ~hist[1].ok
    /\ hist[2].ok

----------------------------------------------------------------------------
(* Properties of run(), under Spec *)

\* The message yields zero links.
NoQualifyingLink ==
    \/ eml.status # "ok"
    \/ \A i \in 1..Len(eml.links) : ~EndsWithCsv(eml.links[i])

\* C8 as stated: a run that extracted at least one link ends with
\* download_file called once for each link, in extraction order, and
\* aggregate_csv_files called exactly once; the aggregation is not entered
\* before the last link was fetched.
C8_EveryLinkFetchedThenOneAggregation ==
    /\ (pc \in {"Done", "Crashed"} /\ urls # <<>>) =>
         (fetched = urls /\ aggCalls = 1)
    /\ aggCalls > 0 => fetched = urls

\* C9: when extraction yields zero links, run() ends without a call of
\* download_file or aggregate_csv_files, the raw directory stays empty and
\* no combined file exists.
C9_ZeroLinksEndsRun ==
    NoQualifyingLink =>
      /\ pc \in {"Extracting", "Done"}
      /\ fetched = <<>>
      /\ aggCalls = 0
      /\ downloaded_files = <<>>
      /\ rawDir = <<>>
      /\ ~combinedExists

\* A run on a readable message whose only links are not .csv links is over.
C9_Witness ==
    /\ pc = "Done"
    /\ eml.status = "ok"
    /\ Len(eml.links) > 0
    /\ NoQualifyingLink
    /\ urls = <<>>

\* C10 as stated: at the end of the Downloading phase the raw directory
\* holds as many files as links were downloaded with Success.
C10_OneFilePerSuccess ==
    pc = "Aggregating" => Len(rawDir) = Len(downloaded_files)

----------------------------------------------------------------------------
(* Properties of aggregate_csv_files, under AggSpec *)

\* The input files: the entries of the raw directory under a .csv name.
Inputs == { i \in 1..Len(rawDir) : IsCsvName(rawDir[i].name) }

NonEmpty(i) == rawDir[i].data.readable /\ rawDir[i].data.rows # <<>>

Empty(i) == rawDir[i].data.readable /\ rawDir[i].data.rows = <<>>

Headered(i) == NonEmpty(i) /\ rawDir[i].data.rows[1].hdr

\* One headered and one non-headered file of equal row count, each
\* classified correctly, and nothing else.
C4_Case ==
    /\ Len(rawDir) = 2
    /\ Inputs = {1, 2}
    /\ NonEmpty(1) /\ NonEmpty(2)
    /\ Len(rawDir[1].data.rows) = Len(rawDir[2].data.rows)
    /\ Headered(1) # Headered(2)
    /\ \A i \in {1, 2} : rawDir[i].data.sniff = Headered(i)

\* C4 as stated: in both orders the combined file is one header line, the
\* first row of the file processed first, followed by (M-1) + M data rows.
C4_BothOrders ==
    (pc = "Done" /\ C4_Case) =>
      /\ Len(combined) = 1 + (Len(rawDir[1].data.rows) - 1)
                           + Len(rawDir[1].data.rows)
      /\ combined[1] = rawDir[1].data.rows[1]

\* C4 amended: the first line of the combined file is the first row of the
\* file processed first. With the headered file first it is followed by
\* (M-1) + M data rows, all rows of both files in order; with the
\* non-headered file first it is followed by (M-1) + (M-1) rows, the other
\* rows of that file and the headered file's rows without its header.
C4_ByOrder ==
    (pc = "Done" /\ C4_Case) =>
      /\ combinedExists
      /\ combined[1] = rawDir[1].data.rows[1]
      /\ Headered(1) =>
           /\ Len(combined) = 1 + (Len(rawDir[1].data.rows) - 1)
                                + Len(rawDir[2].data.rows)
           /\ combined = rawDir[1].data.rows \o rawDir[2].data.rows
      /\ Headered(2) =>
           /\ Len(combined) = 1 + (Len(rawDir[1].data.rows) - 1)
                                + (Len(rawDir[2].data.rows) - 1)
           /\ combined = rawDir[1].data.rows \o Tail(rawDir[2].data.rows)
      /\ total_data_rows = Len(combined) - 1

\* The non-headered file of two rows was processed first, then the headered.
C4_Witness ==
    /\ pc = "Done"
    /\ C4_Case
    /\ Headered(2)
    /\ Len(rawDir[1].data.rows) = 2
    /\ Len(combined) = 3

\* Every input file is empty or is a non-empty file classified as headered,
\* and there is at least one of the latter.
C5_Case ==
    /\ \A i \in Inputs : Empty(i) \/ (NonEmpty(i) /\ rawDir[i].data.sniff)
    /\ \E i \in Inputs : NonEmpty(i)

RECURSIVE SumTails(_)
\* The sum of rows_i - 1 over the non-empty input files from i on.
SumTails(i) ==
    IF i > Len(rawDir) THEN 0
    ELSE (IF i \in Inputs /\ NonEmpty(i)
          THEN Len(rawDir[i].data.rows) - 1 ELSE 0) + SumTails(i + 1)

RECURSIVE Tails(_)
\* The rows after the first of the non-empty input files from i on.
Tails(i) ==
    IF i > Len(rawDir) THEN <<>>
    ELSE (IF i \in Inputs /\ NonEmpty(i)
          THEN Tail(rawDir[i].data.rows) ELSE <<>>) \o Tails(i + 1)

FirstNonEmpty == CHOOSE i \in Inputs :
                   NonEmpty(i) /\ \A j \in Inputs : NonEmpty(j) => i <= j

\* C5: non-empty files classified as headered, with empty files anywhere
\* among them, aggregate to 1 header row plus sum(rows_i - 1) data rows; the
\* header is the first row of the first non-empty file, every non-empty file
\* contributes its rows after the first, and each empty file is logged
\* SKIPPED and contributes nothing.
C5_HeaderPlusTails ==
    (pc = "Done" /\ C5_Case) =>
      /\ combinedExists
      /\ Len(combined) = 1 + SumTails(1)
      /\ total_data_rows = SumTails(1)
      /\ combined = <<rawDir[FirstNonEmpty].data.rows[1]>> \o Tails(1)
      /\ \A i \in Inputs :
           Empty(i) <=> (\E l \in 1..Len(aggLog) :
                           /\ aggLog[l].level = "SKIPPED"
                           /\ aggLog[l].file = rawDir[i].name)

\* An empty file between two non-empty headered files has been aggregated.
C5_Witness ==
    /\ pc = "Done"
    /\ C5_Case
    /\ Inputs = {1, 2, 3}
    /\ NonEmpty(1) /\ Empty(2) /\ NonEmpty(3)
    /\ Len(rawDir[3].data.rows) > 1

\* C6 as stated: after aggregate_csv_files the combined file exists only if
\* at least one non-empty input file was aggregated.
C6_CombinedOnlyIfAggregated ==
    (pc = "Done" /\ combinedExists) => \E i \in Inputs : NonEmpty(i)

\* C7 as stated: when every input file carries its own header row, no
\* header row is written after the first line of the combined file,
\* whatever the classification of each file.
C7_HeaderOnlyFirst ==
    (pc = "Done" /\ \A i \in Inputs : Headered(i)) =>
      \A j \in 2..Len(combined) : ~combined[j].hdr
====
